---- MODULE Spec2Model ----
(***************************************************************************)
(* The action execution subsystem of agent_town: the Action classes and    *)
(* ActionChains of src/index.ts (the second file of that listing, the      *)
(* "./actions" module) and the control loop AiBot.act of                   *)
(* src/unnamed/part_001 that drives them.                                  *)
(*                                                                         *)
(* JavaScript runs one task at a time.  A thread of this model is one      *)
(* invocation of an async function together with the calls it awaits: the  *)
(* loop AiBot.act (thread 0), one thread per ActionChains.start()          *)
(* invocation, and, under SpecApi, one thread per act()/cancel() call of a *)
(* client of the exported classes.  mq is the run stack followed by the    *)
(* microtask queue: its head is the continuation that is executing, a      *)
(* synchronous call pushes in front, an await pops the head, and a settled *)
(* promise appends the awaiting continuation.  Timers, actuator events and *)
(* the planner's answer are tasks: they run only when mq is empty.         *)
(***************************************************************************)
EXTENDS Integers, Sequences, FiniteSets, TLC

\* ---------------------------------------------------------------- bounds
\* Planning cycles AiBot.act runs.
MaxCycles == 2
\* Function calls in one planner response.
MaxLen == 2
\* Threads besides the loop: start() invocations, or client calls.
MaxThreads == 4
\* Action objects a client of the exported classes constructs (SpecApi).
NInst == 2
\* cancel() calls a client makes on one action (SpecApi).
MaxCancels == 2
\* loop() coroutines of the chat-controlled program
MaxLoops == 3
\* The candidates of a response and the parts of a candidate given to decide.
MaxCands == 2
MaxParts == 2
\* The integer ms arguments given to the wait tool are -MaxMs .. MaxMs.
MaxMs == 5100

\* ------------------------------------------------------ program constants
LOOP_INTERVAL_MS == 10000
MOVE_TIMEOUT == 30000

Threads == 0 .. MaxThreads
MOVE == "move_to_position"
EAT == "eat"
FOLLOW == "follow_and_attack"
DIG == "dig_block"

\* The world the actions look things up in: bot.inventory.items() holds
\* bread and nothing else; bot.entities holds entity 7 while it is valid.
Inventory == {"bread"}
ENTITY == "e7"

VARIABLES
  insts,               \* the Action objects constructed so far; an object's index is its identity
  actions,             \* ActionChains.actions, as indices into insts
  currentActionIndex,  \* ActionChains.currentActionIndex (0-based, as in the code)
  pc,                  \* where each thread stands
  inst,                \* the local `action` of start() / reset() / the receiver of act() or cancel()
  base,                \* what a thread returns to: "loop", "start" or "api"
  sit,                 \* for a client's cancel(): when it was called relative to act()
  nth,                 \* threads created so far
  mq,                  \* run stack and microtask queue of continuations
  calls,               \* listeners of the physicsTick emit in progress still to be called
  goal,                \* bot.pathfinder.goal: the action that set it, 0 for null
  ackPending,          \* the pathfinder still owes a path_reset for a stop directive
  goalL,               \* once("goal_reached") listeners (and their timers), oldest first
  resetL,              \* once("path_reset") listeners, oldest first
  tickL,               \* on("physicsTick") attackTick closures, oldest first
  young,               \* waits whose 30 s timer cannot fire before the pending 10 s loop timer
  entValid,            \* entity 7 is in bot.entities and entity.isValid
  inHazard,            \* bot.isInLava || bot.isInWater
  hazardOn,            \* the hazard handler is installed and the bot's ticks emit the
                       \* "physicTick" event it listens to
  cycle,               \* cycles of AiBot.act begun
  resp,                \* the planner response AiBot.act holds across `await reset()`
  late,                \* actions that issued a directive after their cancel() had returned
  controlLoopActive,   \* the flag of that name of the chat-controlled loop
  batch,               \* per loop() coroutine: the tool calls of its `for` still to execute
  iv,                  \* the coroutines whose goto has its 200 ms interval running
  arrived,             \* the coroutines whose goto target the bot is within 1.2 blocks of
  expired,             \* the coroutines whose current batch had a goto end by timedOut
  finite,              \* per coroutine: the timeoutMs its goto was called with is a finite number
  timers,              \* pending cycle timers set by AiBot.act (or AiBot.action)
  acting,              \* invocations of AiBot.act (or AiBot.action) that have not settled
  lastAttackTick,      \* bot.ts: AiBot.lastAttackTick, as the number of the closure; 0 for the initial one
  attackL,             \* bot.ts: the on("physicsTick") listeners, as closure numbers, oldest first
  made,                \* bot.ts: attack closures created so far
  response,            \* the candidates of the model response given to VertexPlanner.decide
  tools,               \* what VertexPlanner.decide returned
  msArg,               \* call.args?.ms of the wait call given to executeTool
  waitMs,              \* the ms executeTool passed to delay
  ran                  \* which of the two functions have been applied

vars == <<insts, actions, currentActionIndex, pc, inst, base, sit, nth, mq, calls,
          goal, ackPending, goalL, resetL, tickL, young, entValid, inHazard, hazardOn,
          cycle, resp, late, controlLoopActive, batch, iv, arrived, expired,
          finite, timers, acting, lastAttackTick, attackL, made,
          response, tools, msArg, waitMs, ran>>

chainVars == <<actions, currentActionIndex>>
loopVars == <<cycle, resp>>
worldVars == <<entValid, inHazard, hazardOn>>
ctlVars == <<controlLoopActive, batch, iv, arrived, expired>>
timerVars == <<timers, acting>>
directVars == <<lastAttackTick, attackL, made>>
pureVars == <<response, tools, msArg, waitMs, ran>>
extVars == <<finite, timerVars, directVars, pureVars>>

\* ---------------------------------------------------------------- helpers
Remove(s, x) == SelectSeq(s, LAMBDA e : e # x)
SeqToSet(s) == {s[j] : j \in 1 .. Len(s)}

\* The pcs at which an act() has been invoked and has not settled.
ActPcs == {"a_call", "a_goal", "a_goal_r", "a_equip", "a_equip_r", "a_consume",
           "a_tick", "a_dig", "a_r", "a_x"}
\* The pcs inside a cancel() call.
CancelPcs == {"c_call", "c_wait", "c_woke"}

\* A new Action object.
NewAction(kind, arg) == [kind |-> kind, arg |-> arg, attackTick |-> 0, life |-> "new"]

\* The continuation a settled call resumes.
AfterReset(t) == IF base[t] = "loop" THEN "l_add" ELSE "s_break"
\* Variant: cancel() of a client rejects instead of resolving.
AfterCancelRejects(t) == IF base[t] = "api" THEN "ret_fail" ELSE "r_cont"
AfterCancel(t) == IF base[t] = "api" THEN "c_done" ELSE "r_cont"
AfterActOk(t) == IF base[t] = "api" THEN "ret_ok" ELSE "s_next"
AfterActFail(t) == IF base[t] = "api" THEN "ret_fail" ELSE "s_catch"
\* mq once the head's call has settled: the awaiting continuation is queued
\* (a client of the classes just observes the result).
Resume(t) == IF base[t] = "api" THEN Tail(mq) ELSE Append(Tail(mq), t)

\* The head of mq is executing.
Running(t) == calls = <<>> /\ mq # <<>> /\ Head(mq) = t
\* No JavaScript is executing: the next task may run.
EnvReady == calls = <<>> /\ mq = <<>>

\* pc with thread t moved to p and the threads of `woken` (path_reset
\* listeners whose promise was just resolved) moved to "c_woke".
PcSet(t, p, woken) ==
  [u \in Threads |-> IF u = t THEN p
                     ELSE IF u \in SeqToSet(woken) THEN "c_woke"
                     ELSE pc[u]]

\* The path_reset listeners a stop directive (setGoal(null), stop()) calls
\* before it returns: the pathfinder emits path_reset inside the call when it
\* had a path.
SyncWoken(sync) == IF goal # 0 /\ sync THEN resetL ELSE <<>>
\* Variant: the pathfinder owes a path_reset after every stop directive it
\* does not answer inside the call, also when it had no goal.
AckAfterStopAlways(sync) == IF ~sync THEN TRUE ELSE ackPending
\* Whether the pathfinder owes a path_reset after a stop directive.
AckAfterStop(sync) == IF goal # 0 /\ ~sync THEN TRUE ELSE ackPending

\* ------------------------------------------------------ the executor's view
\* Action.toJSON: the kind and the parameters.
Describe(i) == [action |-> insts[i].kind, args |-> insts[i].arg]

\* Variant of ActionChains.toJSON: the descriptions from the action after
\* the cursor on.
ToJSONAfterCursor ==
  [j \in 1 .. (IF currentActionIndex + 1 < Len(actions)
               THEN Len(actions) - currentActionIndex - 1 ELSE 0) |->
     Describe(actions[currentActionIndex + 1 + j])]

\* ActionChains.toJSON: the descriptions from the cursor on.
ToJSON ==
  [j \in 1 .. (IF currentActionIndex < Len(actions)
               THEN Len(actions) - currentActionIndex ELSE 0) |->
     Describe(actions[currentActionIndex + j])]

\* The action's act() has been invoked by some thread and has not settled.
InFlight(i) == \E u \in Threads : pc[u] \in ActPcs /\ inst[u] = i

\* When a cancel() is called, relative to the action's act().
Situation(i) ==
  IF insts[i].life = "new" THEN "before"
  ELSE IF InFlight(i) THEN "during" ELSE "after"

\* insts once cancel() of thread t has returned.
CancelReturned(t) ==
  IF sit[t] # "before" /\ insts[inst[t]].life = "acted"
  THEN [insts EXCEPT ![inst[t]].life = "cancelled"]
  ELSE insts

\* late once action i has issued a directive (setGoal, attack, dig).
Issued(i) == IF insts[i].life = "cancelled" THEN late \cup {i} ELSE late

\* ------------------------------------------------------------- the planner
\* A functionCall part of the planner's response: its name and its args.
\* AiBot.addAction knows three names; dig_block is declared by the actions
\* module and not by addAction; args may be missing from a part.
Decisions ==
  { [name |-> MOVE, args |-> "xyz"],
    [name |-> EAT, args |-> "bread"],
    [name |-> EAT, args |-> "cake"],
    [name |-> FOLLOW, args |-> ENTITY],
    [name |-> DIG, args |-> "xyz"],
    [name |-> MOVE, args |-> "absent"] }

Proposals == UNION {[1 .. n -> Decisions] : n \in 0 .. MaxLen}

\* addAction(name, args) reaches a case of its switch.
Recognised(d) == d.name \in {MOVE, EAT, FOLLOW}
\* Variant: the default case of addAction throws as well.
ThrowsOnUnknown(d) == d.args = "absent" \/ d.name \notin {MOVE, EAT, FOLLOW}
\* addAction(name, undefined) reads a property of undefined in such a case.
Throws(d) == Recognised(d) /\ d.args = "absent"

\* The decisions addAction handles before one throws out of AiBot.act.
FirstThrow(r) ==
  IF \E j \in 1 .. Len(r) : Throws(r[j])
  THEN CHOOSE j \in 1 .. Len(r) : Throws(r[j]) /\ \A k \in 1 .. (j - 1) : ~Throws(r[k])
  ELSE Len(r) + 1

\* AiBot.addAction over a response: the Action objects it adds, in order.
AddAction(r) ==
  LET handled == SubSeq(r, 1, FirstThrow(r) - 1)
      known == SelectSeq(handled, Recognised)
  IN [j \in 1 .. Len(known) |-> NewAction(known[j].name, known[j].args)]

\* ActionChains.add, once per added object.
Add(new) == [j \in 1 .. Len(new) |-> Len(insts) + j]

\* ---------------------------------------------------------------- Init
Init ==
  /\ insts = <<>>
  /\ actions = <<>>
  /\ currentActionIndex = 0
  /\ pc = [t \in Threads |-> IF t = 0 THEN "timer" ELSE "none"]
  /\ inst = [t \in Threads |-> 0]
  /\ base = [t \in Threads |-> IF t = 0 THEN "loop" ELSE "start"]
  /\ sit = [t \in Threads |-> "-"]
  /\ nth = 0
  /\ mq = <<>>
  /\ calls = <<>>
  /\ goal = 0
  /\ ackPending = FALSE
  /\ goalL = <<>>
  /\ resetL = <<>>
  /\ tickL = <<>>
  /\ young = {}
  /\ entValid = TRUE
  /\ inHazard = FALSE
  /\ hazardOn = FALSE
  /\ cycle = 0
  /\ resp = <<>>
  /\ late = {}
  /\ controlLoopActive = FALSE
  /\ batch = [t \in Threads |-> <<>>]
  /\ iv = {}
  /\ arrived = {}
  /\ expired = {}
  /\ finite = [t \in Threads |-> TRUE]
  /\ timers = 1
  /\ acting = 0
  /\ lastAttackTick = 0
  /\ attackL = <<>>
  /\ made = 0
  /\ response = <<>>
  /\ tools = <<>>
  /\ msArg = 0
  /\ waitMs = 0
  /\ ran = {}

\* Variant: the cycle timer is an interval, still armed after it has fired.
LoopTimerRearms ==
  /\ EnvReady
  /\ pc[0] = "timer"
  /\ cycle <= MaxCycles
  /\ cycle' = cycle + 1
  /\ pc' = [pc EXCEPT ![0] = "planner"]
  /\ young' = {}
  /\ UNCHANGED <<insts, chainVars, inst, base, sit, nth, mq, calls, goal, ackPending,
                 goalL, resetL, tickL, worldVars, resp, late>>
  /\ UNCHANGED ctlVars
  /\ timers' = timers
  /\ acting' = acting + 1
  /\ UNCHANGED <<finite, directVars, pureVars>>

\* ------------------------------------------------------------ AiBot.act
\* The cycle timer fires (the first cycle is the call at spawn): scan, the
\* status line, and the planner is asked.
LoopTimer ==
  /\ EnvReady
  /\ pc[0] = "timer"
  /\ cycle <= MaxCycles
  /\ cycle' = cycle + 1
  /\ pc' = [pc EXCEPT ![0] = "planner"]
  /\ young' = {}
  /\ UNCHANGED <<insts, chainVars, inst, base, sit, nth, mq, calls, goal, ackPending,
                 goalL, resetL, tickL, worldVars, resp, late>>
  /\ UNCHANGED ctlVars
  /\ timers' = timers - 1
  /\ acting' = acting + 1
  /\ UNCHANGED <<finite, directVars, pureVars>>

\* Variant: act() goes on to the translation without calling reset().
PlannerReturnNoReset ==
  /\ EnvReady
  /\ pc[0] = "planner"
  /\ cycle <= MaxCycles
  /\ \E r \in Proposals : resp' = r
  /\ pc' = [pc EXCEPT ![0] = "l_add"]
  /\ mq' = <<0>>
  /\ UNCHANGED <<insts, chainVars, inst, base, sit, nth, calls, goal, ackPending,
                 goalL, resetL, tickL, young, worldVars, cycle, late>>
  /\ UNCHANGED ctlVars
  /\ UNCHANGED extVars

\* generateContent resolves: act() goes on to `await this.actions.reset()`.
\* (Past MaxCycles the planner stalls: the call has no timeout.)
PlannerReturn ==
  /\ EnvReady
  /\ pc[0] = "planner"
  /\ cycle <= MaxCycles
  /\ \E r \in Proposals : resp' = r
  /\ pc' = [pc EXCEPT ![0] = "r_call"]
  /\ mq' = <<0>>
  /\ UNCHANGED <<insts, chainVars, inst, base, sit, nth, calls, goal, ackPending,
                 goalL, resetL, tickL, young, worldVars, cycle, late>>
  /\ UNCHANGED ctlVars
  /\ UNCHANGED extVars

\* generateContent rejects: act() has no handler, its promise rejects and
\* no timer is armed.
PlannerFail ==
  /\ EnvReady
  /\ pc[0] = "planner"
  /\ pc' = [pc EXCEPT ![0] = "dead"]
  /\ UNCHANGED <<insts, chainVars, inst, base, sit, nth, mq, calls, goal, ackPending,
                 goalL, resetL, tickL, young, worldVars, loopVars, late>>
  /\ UNCHANGED ctlVars
  /\ acting' = acting - 1
  /\ timers' = timers
  /\ UNCHANGED <<finite, directVars, pureVars>>

\* After reset(): every function call is translated and added, then start()
\* is called and runs up to its first await.
LoopAddStart ==
  /\ Running(0)
  /\ pc[0] = "l_add"
  /\ FirstThrow(resp) > Len(resp)
  /\ nth < MaxThreads
  /\ LET new == AddAction(resp)
         k == nth + 1
     IN /\ insts' = insts \o new
        /\ actions' = actions \o Add(new)
        /\ nth' = k
        /\ pc' = [pc EXCEPT ![0] = "l_settimer", ![k] = "s_loop"]
        /\ base' = [base EXCEPT ![k] = "start"]
        /\ mq' = <<k>> \o mq
  /\ UNCHANGED <<currentActionIndex, inst, sit, calls, goal, ackPending, goalL,
                 resetL, tickL, young, worldVars, loopVars, late>>
  /\ UNCHANGED ctlVars
  /\ UNCHANGED extVars

\* After reset(): addAction throws on a part without args; the actions added
\* before it stay in the list, start() is not called, no timer is armed.
LoopAddThrow ==
  /\ Running(0)
  /\ pc[0] = "l_add"
  /\ FirstThrow(resp) <= Len(resp)
  /\ LET new == AddAction(resp)
     IN /\ insts' = insts \o new
        /\ actions' = actions \o Add(new)
  /\ pc' = [pc EXCEPT ![0] = "dead"]
  /\ mq' = Tail(mq)
  /\ resp' = <<>>
  /\ UNCHANGED <<currentActionIndex, inst, base, sit, nth, calls, goal, ackPending,
                 goalL, resetL, tickL, young, worldVars, cycle, late>>
  /\ UNCHANGED ctlVars
  /\ acting' = acting - 1
  /\ timers' = timers
  /\ UNCHANGED <<finite, directVars, pureVars>>

\* start() has returned its promise (not awaited): setTimeout(act, 10 s).
LoopSetTimer ==
  /\ Running(0)
  /\ pc[0] = "l_settimer"
  /\ pc' = [pc EXCEPT ![0] = "timer"]
  /\ mq' = Tail(mq)
  /\ resp' = <<>>
  /\ UNCHANGED <<insts, chainVars, inst, base, sit, nth, calls, goal, ackPending,
                 goalL, resetL, tickL, young, worldVars, cycle, late>>
  /\ UNCHANGED ctlVars
  /\ timers' = timers + 1
  /\ acting' = acting - 1
  /\ UNCHANGED <<finite, directVars, pureVars>>

\* ---------------------------------------------------------- ActionChains
\* start(): the test of the while loop; the action at the cursor is taken
\* and its act() is called, or start() returns.
StartLoop(t) ==
  /\ Running(t)
  /\ pc[t] = "s_loop"
  /\ IF currentActionIndex < Len(actions)
     THEN /\ inst' = [inst EXCEPT ![t] = actions[currentActionIndex + 1]]
          /\ pc' = [pc EXCEPT ![t] = "a_call"]
          /\ mq' = mq
     ELSE /\ pc' = [pc EXCEPT ![t] = "done"]
          /\ mq' = Tail(mq)
          /\ inst' = inst
  /\ UNCHANGED <<insts, chainVars, base, sit, nth, calls, goal, ackPending, goalL,
                 resetL, tickL, young, worldVars, loopVars, late>>
  /\ UNCHANGED ctlVars
  /\ UNCHANGED extVars

\* Variant of the success path of start(): the cursor advances by two.
StartNextSkips(t) ==
  /\ Running(t)
  /\ pc[t] = "s_next"
  /\ currentActionIndex' = currentActionIndex + 2
  /\ pc' = [pc EXCEPT ![t] = "s_loop"]
  /\ UNCHANGED <<insts, actions, inst, base, sit, nth, mq, calls, goal, ackPending,
                 goalL, resetL, tickL, young, worldVars, loopVars, late>>
  /\ UNCHANGED ctlVars
  /\ UNCHANGED extVars

\* start(): act() resolved; the cursor advances.
StartNext(t) ==
  /\ Running(t)
  /\ pc[t] = "s_next"
  /\ currentActionIndex' = currentActionIndex + 1
  /\ pc' = [pc EXCEPT ![t] = "s_loop"]
  /\ UNCHANGED <<insts, actions, inst, base, sit, nth, mq, calls, goal, ackPending,
                 goalL, resetL, tickL, young, worldVars, loopVars, late>>
  /\ UNCHANGED ctlVars
  /\ UNCHANGED extVars

\* Variant of the catch clause of start(): the failed action is skipped and
\* the loop continues with the next one.
StartCatchSkip(t) ==
  /\ Running(t)
  /\ pc[t] = "s_catch"
  /\ pc' = [pc EXCEPT ![t] = "s_next"]
  /\ UNCHANGED <<insts, chainVars, inst, base, sit, nth, mq, calls, goal, ackPending,
                 goalL, resetL, tickL, young, worldVars, loopVars, late>>
  /\ UNCHANGED ctlVars
  /\ UNCHANGED extVars

\* Variant of the catch clause of start(): the Run is retried from its first
\* action.
StartCatchRetry(t) ==
  /\ Running(t)
  /\ pc[t] = "s_catch"
  /\ currentActionIndex' = 0
  /\ pc' = [pc EXCEPT ![t] = "s_loop"]
  /\ UNCHANGED <<insts, actions, inst, base, sit, nth, mq, calls, goal, ackPending,
                 goalL, resetL, tickL, young, worldVars, loopVars, late>>
  /\ UNCHANGED ctlVars
  /\ UNCHANGED extVars

\* Variant of the catch clause of start(): the failure is thrown on to the
\* caller, AiBot.act.
StartCatchRethrows(t) ==
  /\ Running(t)
  /\ pc[t] = "s_catch"
  /\ pc' = [pc EXCEPT ![t] = "aborted", ![0] = "dead"]
  /\ mq' = Tail(mq)
  /\ UNCHANGED <<insts, chainVars, inst, base, sit, nth, calls, goal, ackPending,
                 goalL, resetL, tickL, young, worldVars, loopVars, late>>
  /\ UNCHANGED ctlVars
  /\ UNCHANGED extVars

\* start(): act() rejected; the failure is logged and reset() is called.
StartCatch(t) ==
  /\ Running(t)
  /\ pc[t] = "s_catch"
  /\ pc' = [pc EXCEPT ![t] = "r_call"]
  /\ UNCHANGED <<insts, chainVars, inst, base, sit, nth, mq, calls, goal, ackPending,
                 goalL, resetL, tickL, young, worldVars, loopVars, late>>
  /\ UNCHANGED ctlVars
  /\ UNCHANGED extVars

\* start(): reset() has returned; break, and start() returns.
StartBreak(t) ==
  /\ Running(t)
  /\ pc[t] = "s_break"
  /\ pc' = [pc EXCEPT ![t] = "aborted"]
  /\ mq' = Tail(mq)
  /\ UNCHANGED <<insts, chainVars, inst, base, sit, nth, calls, goal, ackPending,
                 goalL, resetL, tickL, young, worldVars, loopVars, late>>
  /\ UNCHANGED ctlVars
  /\ UNCHANGED extVars

\* Variant of reset(): with no action at the cursor it returns at once and
\* leaves the list and the cursor as they are.
ResetCallLeavesList(t) ==
  /\ Running(t)
  /\ pc[t] = "r_call"
  /\ IF currentActionIndex < Len(actions)
     THEN /\ inst' = [inst EXCEPT ![t] = actions[currentActionIndex + 1]]
          /\ pc' = [pc EXCEPT ![t] = "c_call"]
          /\ UNCHANGED <<chainVars, mq>>
     ELSE /\ pc' = [pc EXCEPT ![t] = AfterReset(t)]
          /\ mq' = Append(Tail(mq), t)
          /\ UNCHANGED <<chainVars, inst>>
  /\ UNCHANGED <<insts, base, sit, nth, calls, goal, ackPending, goalL, resetL,
                 tickL, young, worldVars, loopVars, late>>
  /\ UNCHANGED ctlVars
  /\ UNCHANGED extVars

\* Variant of reset(): the list is cleared and the cursor zeroed before
\* cancel() is awaited.
ResetCallClearsFirst(t) ==
  /\ Running(t)
  /\ pc[t] = "r_call"
  /\ actions' = <<>>
  /\ currentActionIndex' = 0
  /\ IF currentActionIndex < Len(actions)
     THEN /\ inst' = [inst EXCEPT ![t] = actions[currentActionIndex + 1]]
          /\ pc' = [pc EXCEPT ![t] = "c_call"]
          /\ mq' = mq
     ELSE /\ pc' = [pc EXCEPT ![t] = AfterReset(t)]
          /\ mq' = Append(Tail(mq), t)
          /\ inst' = inst
  /\ UNCHANGED <<insts, base, sit, nth, calls, goal, ackPending, goalL, resetL,
                 tickL, young, worldVars, loopVars, late>>
  /\ UNCHANGED ctlVars
  /\ UNCHANGED extVars

\* reset(), up to its await: with an action at the cursor, cancel() is about
\* to be called on it; with none, the list is cleared and reset() returns.
ResetCall(t) ==
  /\ Running(t)
  /\ pc[t] = "r_call"
  /\ IF currentActionIndex < Len(actions)
     THEN /\ inst' = [inst EXCEPT ![t] = actions[currentActionIndex + 1]]
          /\ pc' = [pc EXCEPT ![t] = "c_call"]
          /\ UNCHANGED <<chainVars, mq>>
     ELSE /\ actions' = <<>>
          /\ currentActionIndex' = 0
          /\ pc' = [pc EXCEPT ![t] = AfterReset(t)]
          /\ mq' = Append(Tail(mq), t)
          /\ inst' = inst
  /\ UNCHANGED <<insts, base, sit, nth, calls, goal, ackPending, goalL, resetL,
                 tickL, young, worldVars, loopVars, late>>
  /\ UNCHANGED ctlVars
  /\ UNCHANGED extVars

\* reset(), after `await action.cancel()`: the list is cleared, the cursor
\* is zeroed, reset() returns.
ResetCont(t) ==
  /\ Running(t)
  /\ pc[t] = "r_cont"
  /\ actions' = <<>>
  /\ currentActionIndex' = 0
  /\ pc' = [pc EXCEPT ![t] = AfterReset(t)]
  /\ mq' = Append(Tail(mq), t)
  /\ UNCHANGED <<insts, inst, base, sit, nth, calls, goal, ackPending, goalL,
                 resetL, tickL, young, worldVars, loopVars, late>>
  /\ UNCHANGED ctlVars
  /\ UNCHANGED extVars

\* ------------------------------------------------------------ the Actions
ThreadSeq == [j \in 1 .. MaxThreads |-> j]

\* Variant: every kind's cancel() tells the pathfinder to stop.
CancelStopsAlways(k) == TRUE

\* The kinds whose cancel() tells the pathfinder to stop (EatAction.cancel
\* has an empty body).
CancelStops(k) == k # EAT

\* The 30 s timer of a wait registered now cannot fire before the 10 s loop
\* timer that is pending, or is armed later in this same task.
TimerPending == pc[0] \in {"timer", "l_settimer"} /\ LOOP_INTERVAL_MS < MOVE_TIMEOUT

\* cancel() of the action inst[t], up to its await.  FollowAndAttackAction
\* removes its attackTick listener, DigBlockAction stops the digging (the
\* pending bot.dig rejects); then, with a pathfinder goal set, the goal is
\* cleared and cancel() waits for the next path_reset; with none it returns.
CancelCall(t) ==
  /\ Running(t)
  /\ pc[t] = "c_call"
  /\ LET i == inst[t]
         k == insts[i].kind
         s == Situation(i)
         aborted == IF k = DIG THEN SelectSeq(ThreadSeq, LAMBDA u : pc[u] = "a_dig")
                    ELSE <<>>
         pcAborted == [u \in Threads |-> IF u \in SeqToSet(aborted) THEN "a_x" ELSE pc[u]]
     IN /\ sit' = [sit EXCEPT ![t] = s]
        /\ tickL' = IF k = FOLLOW
                    THEN Remove(tickL, [th |-> insts[i].attackTick, inst |-> i])
                    ELSE tickL
        /\ IF CancelStops(k) /\ goal # 0
           THEN \E sync \in BOOLEAN :
                  /\ goal' = 0
                  /\ ackPending' = AckAfterStop(sync)
                  /\ resetL' = IF sync THEN <<t>> ELSE Append(resetL, t)
                  /\ pc' = [u \in Threads |->
                              IF u = t THEN "c_wait"
                              ELSE IF u \in SeqToSet(SyncWoken(sync)) THEN "c_woke"
                              ELSE pcAborted[u]]
                  /\ mq' = Tail(mq) \o aborted \o SyncWoken(sync)
                  /\ insts' = insts
           ELSE /\ pc' = [pcAborted EXCEPT ![t] = AfterCancel(t)]
                /\ mq' = Tail(mq) \o aborted \o (IF base[t] = "api" THEN <<>> ELSE <<t>>)
                /\ insts' = IF s # "before" /\ insts[i].life = "acted"
                            THEN [insts EXCEPT ![i].life = "cancelled"]
                            ELSE insts
                /\ UNCHANGED <<goal, ackPending, resetL>>
  /\ UNCHANGED <<chainVars, inst, base, nth, calls, goalL, young, worldVars, loopVars, late>>
  /\ UNCHANGED ctlVars
  /\ UNCHANGED extVars

\* cancel(), after its await: path_reset came; cancel() returns.
CancelWoke(t) ==
  /\ Running(t)
  /\ pc[t] = "c_woke"
  /\ pc' = [pc EXCEPT ![t] = AfterCancel(t)]
  /\ mq' = Resume(t)
  /\ insts' = CancelReturned(t)
  /\ UNCHANGED <<chainVars, inst, base, sit, nth, calls, goal, ackPending, goalL,
                 resetL, tickL, young, worldVars, loopVars, late>>
  /\ UNCHANGED ctlVars
  /\ UNCHANGED extVars

\* Variant: the lookup of act() always finds its item or entity.
FoundAlways(i) == TRUE
\* The lookup act() of action i starts with: the item of an eat is in the
\* inventory, the entity of a follow_and_attack is among bot.entities.
Found(i) ==
  CASE insts[i].kind = EAT -> insts[i].arg \in Inventory
    [] insts[i].kind = FOLLOW -> entValid /\ insts[i].arg = ENTITY
    [] OTHER -> TRUE

\* act() of the action inst[t], up to its first await.
ActCall(t) ==
  /\ Running(t)
  /\ pc[t] = "a_call"
  /\ LET i == inst[t]
         k == insts[i].kind
     IN IF ~Found(i)
        THEN \* EatAction / FollowAndAttackAction throw before any directive
             /\ insts' = [insts EXCEPT ![i].life = "acted"]
             /\ pc' = [pc EXCEPT ![t] = AfterActFail(t)]
             /\ mq' = Resume(t)
             /\ UNCHANGED <<goal, goalL, tickL, young, late>>
        ELSE /\ mq' = Tail(mq)
             /\ CASE k \in {MOVE, DIG} ->
                       /\ insts' = [insts EXCEPT ![i].life = "acted"]
                       /\ goal' = i
                       /\ goalL' = Append(goalL, t)
                       /\ young' = IF TimerPending THEN young \cup {t} ELSE young
                       /\ pc' = [pc EXCEPT ![t] = "a_goal"]
                       /\ late' = Issued(i)
                       /\ tickL' = tickL
                  [] k = FOLLOW ->
                       /\ insts' = [insts EXCEPT ![i].life = "acted", ![i].attackTick = t]
                       /\ goal' = i
                       /\ tickL' = Append(tickL, [th |-> t, inst |-> i])
                       /\ pc' = [pc EXCEPT ![t] = "a_tick"]
                       /\ late' = Issued(i)
                       /\ UNCHANGED <<goalL, young>>
                  [] OTHER ->
                       /\ insts' = [insts EXCEPT ![i].life = "acted"]
                       /\ pc' = [pc EXCEPT ![t] = "a_equip"]
                       /\ UNCHANGED <<goal, goalL, tickL, young, late>>
  /\ UNCHANGED <<chainVars, inst, base, sit, nth, calls, ackPending, resetL,
                 worldVars, loopVars>>
  /\ UNCHANGED ctlVars
  /\ UNCHANGED extVars

\* MoveToPositionAction.act, after its await: goal_reached came; act() returns.
MoveGoalCont(t) ==
  /\ Running(t)
  /\ pc[t] = "a_goal_r"
  /\ insts[inst[t]].kind = MOVE
  /\ pc' = [pc EXCEPT ![t] = AfterActOk(t)]
  /\ mq' = Resume(t)
  /\ UNCHANGED <<insts, chainVars, inst, base, sit, nth, calls, goal, ackPending,
                 goalL, resetL, tickL, young, worldVars, loopVars, late>>
  /\ UNCHANGED ctlVars
  /\ UNCHANGED extVars

\* DigBlockAction.act, after its first await: goal_reached came; the block
\* is looked up and, when there is one, dug.
DigGoalCont(t) ==
  /\ Running(t)
  /\ pc[t] = "a_goal_r"
  /\ insts[inst[t]].kind = DIG
  /\ \E block \in BOOLEAN :
       IF block
       THEN /\ pc' = [pc EXCEPT ![t] = "a_dig"]
            /\ mq' = Tail(mq)
            /\ late' = Issued(inst[t])
       ELSE /\ pc' = [pc EXCEPT ![t] = AfterActOk(t)]
            /\ mq' = Resume(t)
            /\ late' = late
  /\ UNCHANGED <<insts, chainVars, inst, base, sit, nth, calls, goal, ackPending,
                 goalL, resetL, tickL, young, worldVars, loopVars>>
  /\ UNCHANGED ctlVars
  /\ UNCHANGED extVars

\* EatAction.act, after `await equip`: consume() is called.
EatEquipCont(t) ==
  /\ Running(t)
  /\ pc[t] = "a_equip_r"
  /\ pc' = [pc EXCEPT ![t] = "a_consume"]
  /\ mq' = Tail(mq)
  /\ UNCHANGED <<insts, chainVars, inst, base, sit, nth, calls, goal, ackPending,
                 goalL, resetL, tickL, young, worldVars, loopVars, late>>
  /\ UNCHANGED ctlVars
  /\ UNCHANGED extVars

\* act(), after its last await resolved: it returns and its promise resolves.
ActReturn(t) ==
  /\ Running(t)
  /\ pc[t] = "a_r"
  /\ pc' = [pc EXCEPT ![t] = AfterActOk(t)]
  /\ mq' = Resume(t)
  /\ UNCHANGED <<insts, chainVars, inst, base, sit, nth, calls, goal, ackPending,
                 goalL, resetL, tickL, young, worldVars, loopVars, late>>
  /\ UNCHANGED ctlVars
  /\ UNCHANGED extVars

\* act(), after an await rejected: it throws and its promise rejects.
ActThrow(t) ==
  /\ Running(t)
  /\ pc[t] = "a_x"
  /\ pc' = [pc EXCEPT ![t] = AfterActFail(t)]
  /\ mq' = Resume(t)
  /\ UNCHANGED <<insts, chainVars, inst, base, sit, nth, calls, goal, ackPending,
                 goalL, resetL, tickL, young, worldVars, loopVars, late>>
  /\ UNCHANGED ctlVars
  /\ UNCHANGED extVars

\* ------------------------------------------------- the actuator's events
\* The pathfinder reaches a goal that is not dynamic: it emits goal_reached
\* to every once-listener and clears its goal.
GoalReached ==
  /\ EnvReady
  /\ goal # 0
  /\ insts[goal].kind \in {MOVE, DIG}
  /\ pc' = [u \in Threads |-> IF u \in SeqToSet(goalL) THEN "a_goal_r" ELSE pc[u]]
  /\ mq' = goalL
  /\ goalL' = <<>>
  /\ young' = young \ SeqToSet(goalL)
  /\ goal' = 0
  /\ UNCHANGED <<insts, chainVars, inst, base, sit, nth, calls, ackPending, resetL,
                 tickL, worldVars, loopVars, late>>
  /\ UNCHANGED ctlVars
  /\ UNCHANGED extVars

\* The 30 s timer of the oldest pending wait fires: its promise rejects.
MoveTimeout(t) ==
  /\ EnvReady
  /\ goalL # <<>>
  /\ t = Head(goalL)
  /\ t \notin young
  /\ pc' = [pc EXCEPT ![t] = "a_x"]
  /\ goalL' = Tail(goalL)
  /\ mq' = <<t>>
  /\ UNCHANGED <<insts, chainVars, inst, base, sit, nth, calls, goal, ackPending,
                 resetL, tickL, young, worldVars, loopVars, late>>
  /\ UNCHANGED ctlVars
  /\ UNCHANGED extVars

\* The pathfinder emits path_reset: for a stop directive it still owes one
\* for, or because the path of its current goal is recomputed.
PathReset ==
  /\ EnvReady
  /\ ackPending \/ goal # 0
  /\ pc' = [u \in Threads |-> IF u \in SeqToSet(resetL) THEN "c_woke" ELSE pc[u]]
  /\ mq' = resetL
  /\ resetL' = <<>>
  /\ ackPending' = FALSE
  /\ UNCHANGED <<insts, chainVars, inst, base, sit, nth, calls, goal, goalL, tickL,
                 young, worldVars, loopVars, late>>
  /\ UNCHANGED ctlVars
  /\ UNCHANGED extVars

\* bot.equip settles.
EquipDone(t, ok) ==
  /\ EnvReady
  /\ pc[t] = "a_equip"
  /\ pc' = [pc EXCEPT ![t] = IF ok THEN "a_equip_r" ELSE "a_x"]
  /\ mq' = <<t>>
  /\ UNCHANGED <<insts, chainVars, inst, base, sit, nth, calls, goal, ackPending,
                 goalL, resetL, tickL, young, worldVars, loopVars, late>>
  /\ UNCHANGED ctlVars
  /\ UNCHANGED extVars

\* bot.consume settles.
ConsumeDone(t, ok) ==
  /\ EnvReady
  /\ pc[t] = "a_consume"
  /\ pc' = [pc EXCEPT ![t] = IF ok THEN "a_r" ELSE "a_x"]
  /\ mq' = <<t>>
  /\ UNCHANGED <<insts, chainVars, inst, base, sit, nth, calls, goal, ackPending,
                 goalL, resetL, tickL, young, worldVars, loopVars, late>>
  /\ UNCHANGED ctlVars
  /\ UNCHANGED extVars

\* bot.dig settles.
DigDone(t, ok) ==
  /\ EnvReady
  /\ pc[t] = "a_dig"
  /\ pc' = [pc EXCEPT ![t] = IF ok THEN "a_r" ELSE "a_x"]
  /\ mq' = <<t>>
  /\ UNCHANGED <<insts, chainVars, inst, base, sit, nth, calls, goal, ackPending,
                 goalL, resetL, tickL, young, worldVars, loopVars, late>>
  /\ UNCHANGED ctlVars
  /\ UNCHANGED extVars

\* The entity leaves the world.
EntityGone ==
  /\ EnvReady
  /\ entValid
  /\ entValid' = FALSE
  /\ UNCHANGED <<insts, chainVars, pc, inst, base, sit, nth, mq, calls, goal,
                 ackPending, goalL, resetL, tickL, young, inHazard, hazardOn, loopVars,
                 late>>
  /\ UNCHANGED ctlVars
  /\ UNCHANGED extVars

\* The entry of the hazard handler in the listeners a tick calls.
HazardCall == [th |-> -1, inst |-> 0]

\* One physics tick of the bot: it emits physicsTick, which calls the
\* registered attackTick closures in turn, and then, in a build that still
\* has it, the older event "physicTick" the hazard handler listens to.
PhysicsTick ==
  /\ EnvReady
  /\ tickL # <<>> \/ hazardOn
  /\ calls' = tickL \o (IF hazardOn THEN <<HazardCall>> ELSE <<>>)
  /\ UNCHANGED <<insts, chainVars, pc, inst, base, sit, nth, mq, goal, ackPending,
                 goalL, resetL, tickL, young, worldVars, loopVars, late>>
  /\ UNCHANGED ctlVars
  /\ UNCHANGED extVars

\* One attackTick closure (of the act() of thread c.th on action c.inst):
\* with the entity gone it clears the goal, removes the action's current
\* attackTick and resolves its act(); otherwise it attacks when in range.
AttackTick ==
  /\ calls # <<>>
  /\ Head(calls) # HazardCall
  /\ calls' = Tail(calls)
  /\ LET c == Head(calls)
         resolves == pc[c.th] = "a_tick" /\ inst[c.th] = c.inst
     IN IF ~entValid
        THEN \E sync \in BOOLEAN :
               /\ goal' = 0
               /\ ackPending' = AckAfterStop(sync)
               /\ resetL' = IF goal # 0 /\ sync THEN <<>> ELSE resetL
               /\ tickL' = Remove(tickL, [th |-> insts[c.inst].attackTick, inst |-> c.inst])
               /\ pc' = IF resolves THEN PcSet(c.th, "a_r", SyncWoken(sync))
                        ELSE PcSet(-1, "-", SyncWoken(sync))
               /\ mq' = mq \o SyncWoken(sync) \o (IF resolves THEN <<c.th>> ELSE <<>>)
               /\ late' = Issued(c.inst)
        ELSE /\ \E inRange \in BOOLEAN : late' = IF inRange THEN Issued(c.inst) ELSE late
             /\ UNCHANGED <<goal, ackPending, resetL, tickL, pc, mq>>
  /\ UNCHANGED <<insts, chainVars, inst, base, sit, nth, goalL, young, worldVars, loopVars>>
  /\ UNCHANGED ctlVars
  /\ UNCHANGED extVars

\* ------------------------------------------------- the running program
\* AiBot and its ActionChains, with the actuator and the planner around it.
Next ==
  \/ LoopTimer
  \/ PlannerReturn
  \/ PlannerFail
  \/ LoopAddStart
  \/ LoopAddThrow
  \/ LoopSetTimer
  \/ \E t \in Threads : StartLoop(t)
  \/ \E t \in Threads : StartNext(t)
  \/ \E t \in Threads : StartCatch(t)
  \/ \E t \in Threads : StartBreak(t)
  \/ \E t \in Threads : ResetCall(t)
  \/ \E t \in Threads : ResetCont(t)
  \/ \E t \in Threads : CancelCall(t)
  \/ \E t \in Threads : CancelWoke(t)
  \/ \E t \in Threads : ActCall(t)
  \/ \E t \in Threads : MoveGoalCont(t)
  \/ \E t \in Threads : EatEquipCont(t)
  \/ \E t \in Threads : ActReturn(t)
  \/ \E t \in Threads : ActThrow(t)
  \/ \E t \in Threads : MoveTimeout(t)
  \/ \E t \in Threads, ok \in BOOLEAN : EquipDone(t, ok)
  \/ \E t \in Threads, ok \in BOOLEAN : ConsumeDone(t, ok)
  \/ GoalReached
  \/ PathReset
  \/ EntityGone
  \/ PhysicsTick
  \/ AttackTick

Spec == Init /\ [][Next]_vars

\* What the runtime and the libraries are bound to do for the act() of thread
\* t: the 30 s timer of a move fires, an equip and a consume come to an end.
Settle(t) ==
  \/ MoveTimeout(t)
  \/ \E ok \in BOOLEAN : EquipDone(t, ok)
  \/ \E ok \in BOOLEAN : ConsumeDone(t, ok)

\* The program under a fair scheduler: a step is taken while one is possible
\* (continuations run, ticks and timers fire), and no pending timer, equip
\* or consume is put off for ever.
SpecLive == Spec /\ WF_vars(Next) /\ \A t \in Threads : SF_vars(Settle(t))

\* ------------------------------------------- the exported Action classes
\* The Action objects a client of the module constructs.
ApiActions ==
  { NewAction(MOVE, "xyz"), NewAction(EAT, "bread"), NewAction(EAT, "cake"),
    NewAction(FOLLOW, ENTITY), NewAction(DIG, "xyz") }

InitApi ==
  /\ insts \in [1 .. NInst -> ApiActions]
  /\ actions = <<>>
  /\ currentActionIndex = 0
  /\ pc = [t \in Threads |-> "none"]
  /\ inst = [t \in Threads |-> 0]
  /\ base = [t \in Threads |-> "api"]
  /\ sit = [t \in Threads |-> "-"]
  /\ nth = 0
  /\ mq = <<>>
  /\ calls = <<>>
  /\ goal = 0
  /\ ackPending = FALSE
  /\ goalL = <<>>
  /\ resetL = <<>>
  /\ tickL = <<>>
  /\ young = {}
  /\ entValid = TRUE
  /\ inHazard = FALSE
  /\ hazardOn \in BOOLEAN
  /\ cycle = 0
  /\ resp = <<>>
  /\ late = {}
  /\ controlLoopActive = FALSE
  /\ batch = [t \in Threads |-> <<>>]
  /\ iv = {}
  /\ arrived = {}
  /\ expired = {}
  /\ finite = [t \in Threads |-> TRUE]
  /\ timers = 0
  /\ acting = 0
  /\ lastAttackTick = 0
  /\ attackL = <<>>
  /\ made = 0
  /\ response = <<>>
  /\ tools = <<>>
  /\ msArg = 0
  /\ waitMs = 0
  /\ ran = {}

\* The cancel() calls made on action i.
CancelsOf(i) == {u \in Threads : pc[u] \in CancelPcs \cup {"c_done"} /\ inst[u] = i}

\* A client calls act() on an action it has not started, when every act()
\* still unsettled belongs to an action whose cancel() has returned.
ApiAct(i) ==
  /\ EnvReady
  /\ nth < MaxThreads
  /\ insts[i].life = "new"
  /\ \A u \in Threads : pc[u] \in ActPcs => insts[inst[u]].life = "cancelled"
  /\ nth' = nth + 1
  /\ pc' = [pc EXCEPT ![nth + 1] = "a_call"]
  /\ inst' = [inst EXCEPT ![nth + 1] = i]
  /\ mq' = <<nth + 1>>
  /\ UNCHANGED <<insts, chainVars, base, sit, calls, goal, ackPending, goalL, resetL,
                 tickL, young, worldVars, loopVars, late>>
  /\ UNCHANGED ctlVars
  /\ UNCHANGED extVars

\* A client calls cancel() on an action.
ApiCancel(i) ==
  /\ EnvReady
  /\ nth < MaxThreads
  /\ Cardinality(CancelsOf(i)) < MaxCancels
  /\ nth' = nth + 1
  /\ pc' = [pc EXCEPT ![nth + 1] = "c_call"]
  /\ inst' = [inst EXCEPT ![nth + 1] = i]
  /\ mq' = <<nth + 1>>
  /\ UNCHANGED <<insts, chainVars, base, sit, calls, goal, ackPending, goalL, resetL,
                 tickL, young, worldVars, loopVars, late>>
  /\ UNCHANGED ctlVars
  /\ UNCHANGED extVars

\* The bot enters or leaves lava or water.
HazardChange ==
  /\ EnvReady
  /\ inHazard' = ~inHazard
  /\ UNCHANGED <<insts, chainVars, pc, inst, base, sit, nth, mq, calls, goal,
                 ackPending, goalL, resetL, tickL, young, entValid, hazardOn, loopVars,
                 late>>
  /\ UNCHANGED ctlVars
  /\ UNCHANGED extVars

\* The hazard override, called by a tick: with the bot in lava or water the
\* pathfinder's goal is cleared, whoever set it; the handler awaits nothing.
HazardTick ==
  /\ calls # <<>>
  /\ Head(calls) = HazardCall
  /\ calls' = Tail(calls)
  /\ IF inHazard
     THEN \E sync \in BOOLEAN :
            /\ goal' = 0
            /\ ackPending' = AckAfterStop(sync)
            /\ resetL' = IF goal # 0 /\ sync THEN <<>> ELSE resetL
            /\ pc' = PcSet(-1, "-", SyncWoken(sync))
            /\ mq' = mq \o SyncWoken(sync)
     ELSE UNCHANGED <<goal, ackPending, resetL, pc, mq>>
  /\ UNCHANGED <<insts, chainVars, inst, base, sit, nth, goalL, tickL, young,
                 worldVars, loopVars, late>>
  /\ UNCHANGED ctlVars
  /\ UNCHANGED extVars

\* A client of the Action classes, the actuator, and the hazard override.
NextApi ==
  \/ \E i \in 1 .. NInst : ApiAct(i)
  \/ \E i \in 1 .. NInst : ApiCancel(i)
  \/ \E t \in Threads : CancelCall(t)
  \/ \E t \in Threads : CancelWoke(t)
  \/ \E t \in Threads : ActCall(t)
  \/ \E t \in Threads : MoveGoalCont(t)
  \/ \E t \in Threads : DigGoalCont(t)
  \/ \E t \in Threads : EatEquipCont(t)
  \/ \E t \in Threads : ActReturn(t)
  \/ \E t \in Threads : ActThrow(t)
  \/ \E t \in Threads : MoveTimeout(t)
  \/ \E t \in Threads, ok \in BOOLEAN : EquipDone(t, ok)
  \/ \E t \in Threads, ok \in BOOLEAN : ConsumeDone(t, ok)
  \/ \E t \in Threads, ok \in BOOLEAN : DigDone(t, ok)
  \/ GoalReached
  \/ PathReset
  \/ EntityGone
  \/ PhysicsTick
  \/ AttackTick
  \/ HazardChange
  \/ HazardTick

SpecApi == InitApi /\ [][NextApi]_vars

\* ------------------------------------------- the chat-controlled loop
\* The program of start(): a loop() coroutine is spawned at "spawn" and by
\* the chat command "start"; "stop" lowers controlLoopActive. A coroutine is
\* a thread 1 .. MaxLoops with base "ctl".
Tools == {"goto", "wait", "say"}
\* What planner.decide can return: at least one tool call.
Batches == UNION {[1 .. n -> Tools] : n \in 1 .. MaxLen}
\* `let stopRequested = false`, never assigned.
stopRequested == FALSE

InitCtl ==
  /\ insts = <<>>
  /\ actions = <<>>
  /\ currentActionIndex = 0
  /\ pc = [t \in Threads |-> "none"]
  /\ inst = [t \in Threads |-> 0]
  /\ base = [t \in Threads |-> "ctl"]
  /\ sit = [t \in Threads |-> "-"]
  /\ nth = 0
  /\ mq = <<>>
  /\ calls = <<>>
  /\ goal = 0
  /\ ackPending = FALSE
  /\ goalL = <<>>
  /\ resetL = <<>>
  /\ tickL = <<>>
  /\ young = {}
  /\ entValid = TRUE
  /\ inHazard = FALSE
  /\ hazardOn = FALSE
  /\ cycle = 0
  /\ resp = <<>>
  /\ late = {}
  /\ controlLoopActive = FALSE
  /\ batch = [t \in Threads |-> <<>>]
  /\ iv = {}
  /\ arrived = {}
  /\ expired = {}
  /\ finite = [t \in Threads |-> TRUE]
  /\ timers = 0
  /\ acting = 0
  /\ lastAttackTick = 0
  /\ attackL = <<>>
  /\ made = 0
  /\ response = <<>>
  /\ tools = <<>>
  /\ msArg = 0
  /\ waitMs = 0
  /\ ran = {}

\* bot.once("spawn"): the flag is raised and the first loop() is called.
Spawn ==
  /\ EnvReady
  /\ nth = 0
  /\ controlLoopActive' = TRUE
  /\ nth' = 1
  /\ pc' = [pc EXCEPT ![1] = "p_while"]
  /\ mq' = <<1>>
  /\ UNCHANGED <<insts, chainVars, inst, base, sit, calls, goal, ackPending, goalL,
                 resetL, tickL, young, worldVars, loopVars, late, batch, iv, arrived,
                 expired>>
  /\ UNCHANGED extVars

\* Variant of the "stop" command: every loop() is ended where it stands.
ChatStopAbandons ==
  /\ EnvReady
  /\ nth > 0
  /\ controlLoopActive' = FALSE
  /\ pc' = [t \in Threads |-> IF pc[t] = "none" THEN "none" ELSE "p_exit"]
  /\ UNCHANGED <<insts, chainVars, inst, base, sit, nth, mq, calls, goal, ackPending,
                 goalL, resetL, tickL, young, worldVars, loopVars, late, batch, iv,
                 arrived, expired>>
  /\ UNCHANGED extVars

\* The chat handler on "stop": the flag is lowered, nothing else.
ChatStop ==
  /\ EnvReady
  /\ nth > 0
  /\ controlLoopActive' = FALSE
  /\ UNCHANGED <<insts, chainVars, pc, inst, base, sit, nth, mq, calls, goal,
                 ackPending, goalL, resetL, tickL, young, worldVars, loopVars, late,
                 batch, iv, arrived, expired>>
  /\ UNCHANGED extVars

\* The chat handler on "start": with the flag down it raises it and calls a
\* new loop(); with the flag up it only chats.
ChatStart ==
  /\ EnvReady
  /\ nth > 0
  /\ nth < MaxLoops
  /\ IF ~controlLoopActive
     THEN /\ controlLoopActive' = TRUE
          /\ nth' = nth + 1
          /\ pc' = [pc EXCEPT ![nth + 1] = "p_while"]
          /\ mq' = <<nth + 1>>
     ELSE UNCHANGED <<controlLoopActive, nth, pc, mq>>
  /\ UNCHANGED <<insts, chainVars, inst, base, sit, calls, goal, ackPending, goalL,
                 resetL, tickL, young, worldVars, loopVars, late, batch, iv, arrived,
                 expired>>
  /\ UNCHANGED extVars

\* loop(): the test of the while; sense() and the call of planner.decide
\* when it passes, the return of loop() when it does not.
LoopWhile(t) ==
  /\ Running(t)
  /\ pc[t] = "p_while"
  /\ pc' = [pc EXCEPT ![t] = IF controlLoopActive /\ ~stopRequested
                             THEN "p_decide" ELSE "p_exit"]
  /\ mq' = Tail(mq)
  /\ UNCHANGED <<insts, chainVars, inst, base, sit, nth, calls, goal, ackPending,
                 goalL, resetL, tickL, young, worldVars, loopVars, late, ctlVars>>
  /\ UNCHANGED extVars

\* planner.decide resolves with the tool calls of the model's answer.
DecideReturn(t) ==
  /\ EnvReady
  /\ pc[t] = "p_decide"
  /\ \E b \in Batches : batch' = [batch EXCEPT ![t] = b]
  /\ expired' = expired \ {t}
  /\ pc' = [pc EXCEPT ![t] = "p_for"]
  /\ mq' = <<t>>
  /\ UNCHANGED <<insts, chainVars, inst, base, sit, nth, calls, goal, ackPending,
                 goalL, resetL, tickL, young, worldVars, loopVars, late,
                 controlLoopActive, iv, arrived>>
  /\ UNCHANGED extVars

\* planner.decide rejects: the catch of loop() logs and the while goes on.
DecideFail(t) ==
  /\ EnvReady
  /\ pc[t] = "p_decide"
  /\ batch' = [batch EXCEPT ![t] = <<>>]
  /\ expired' = expired \ {t}
  /\ pc' = [pc EXCEPT ![t] = "p_while"]
  /\ mq' = <<t>>
  /\ UNCHANGED <<insts, chainVars, inst, base, sit, nth, calls, goal, ackPending,
                 goalL, resetL, tickL, young, worldVars, loopVars, late,
                 controlLoopActive, iv, arrived>>
  /\ UNCHANGED extVars

\* loop(): one step of `for (const action of actions) await executeTool(..)`:
\* executeTool up to its first await. goto converts call.args.timeoutMs with
\* Number (a finite number, or NaN for a value that is not numeric), sets the
\* goal and starts its interval; wait starts its delay; say chats and returns.
LoopFor(t) ==
  /\ Running(t)
  /\ pc[t] = "p_for"
  /\ IF batch[t] = <<>>
     THEN /\ pc' = [pc EXCEPT ![t] = "p_while"]
          /\ UNCHANGED <<mq, batch, goal, iv, arrived, finite>>
     ELSE /\ batch' = [batch EXCEPT ![t] = Tail(batch[t])]
          /\ CASE Head(batch[t]) = "goto" ->
                    /\ \E f \in BOOLEAN : finite' = [finite EXCEPT ![t] = f]
                    /\ goal' = t
                    /\ iv' = iv \cup {t}
                    /\ arrived' = arrived \ {t}
                    /\ pc' = [pc EXCEPT ![t] = "p_goto"]
                    /\ mq' = Tail(mq)
               [] Head(batch[t]) = "wait" ->
                    /\ pc' = [pc EXCEPT ![t] = "p_delay"]
                    /\ mq' = Tail(mq)
                    /\ UNCHANGED <<goal, iv, arrived, finite>>
               [] OTHER ->
                    /\ pc' = pc
                    /\ mq' = Append(Tail(mq), t)
                    /\ UNCHANGED <<goal, iv, arrived, finite>>
  /\ UNCHANGED <<insts, chainVars, inst, base, sit, nth, calls, ackPending, goalL,
                 resetL, tickL, young, worldVars, loopVars, late, controlLoopActive,
                 expired>>
  /\ UNCHANGED <<timerVars, directVars, pureVars>>

\* The bot comes within 1.2 blocks of the target of the goto whose goal the
\* pathfinder holds.
Arrive(t) ==
  /\ EnvReady
  /\ t \in iv
  /\ goal = t
  /\ t \notin arrived
  /\ arrived' = arrived \cup {t}
  /\ UNCHANGED <<insts, chainVars, pc, inst, base, sit, nth, mq, calls, goal,
                 ackPending, goalL, resetL, tickL, young, worldVars, loopVars, late,
                 controlLoopActive, batch, iv, expired>>
  /\ UNCHANGED extVars

\* goto: a call of the interval callback that finds done or timedOut: the
\* interval is cleared, the goal is set to null and the promise resolves.
\* done: the goal is already null, or the bot is at the target.  timedOut:
\* `Date.now() - start > timeoutMs`, false at every poll when timeoutMs is NaN.
GotoPoll(t, timedOut) ==
  /\ EnvReady
  /\ t \in iv
  /\ pc[t] = "p_goto"
  /\ timedOut => finite[t]
  /\ finite' = [finite EXCEPT ![t] = TRUE]
  /\ LET done == goal = 0 \/ t \in arrived
     IN /\ done \/ timedOut
        /\ expired' = IF ~done THEN expired \cup {t} ELSE expired
  /\ iv' = iv \ {t}
  /\ goal' = 0
  /\ pc' = [pc EXCEPT ![t] = "p_for"]
  /\ mq' = <<t>>
  /\ UNCHANGED <<insts, chainVars, inst, base, sit, nth, calls, ackPending, goalL,
                 resetL, tickL, young, worldVars, loopVars, late, controlLoopActive,
                 batch, arrived>>
  /\ UNCHANGED <<timerVars, directVars, pureVars>>

\* delay(ms) of the wait tool: its timer fires.
DelayDone(t) ==
  /\ EnvReady
  /\ pc[t] = "p_delay"
  /\ pc' = [pc EXCEPT ![t] = "p_for"]
  /\ mq' = <<t>>
  /\ UNCHANGED <<insts, chainVars, inst, base, sit, nth, calls, goal, ackPending,
                 goalL, resetL, tickL, young, worldVars, loopVars, late, ctlVars>>
  /\ UNCHANGED extVars

NextCtl ==
  \/ Spawn
  \/ ChatStop
  \/ ChatStart
  \/ \E t \in 1 .. MaxLoops :
       \/ LoopWhile(t)
       \/ DecideReturn(t)
       \/ DecideFail(t)
       \/ LoopFor(t)
       \/ Arrive(t)
       \/ GotoPoll(t, TRUE)
       \/ GotoPoll(t, FALSE)
       \/ DelayDone(t)

SpecCtl == InitCtl /\ [][NextCtl]_vars

\* The steps of coroutine t that need no event from outside the process:
\* its continuations run, the planner call settles, its timers fire.
CtlStep(t) ==
  \/ LoopWhile(t)
  \/ DecideReturn(t)
  \/ DecideFail(t)
  \/ LoopFor(t)
  \/ GotoPoll(t, TRUE)
  \/ GotoPoll(t, FALSE)
  \/ DelayDone(t)

\* The event loop keeps running every coroutine; chat commands and the
\* bot's arrival at a target are not promised.
SpecCtlLive == SpecCtl /\ \A t \in 1 .. MaxLoops : SF_vars(CtlStep(t))


\* ------------------------------------------- the direct-execution variant
\* The program of src/bot.ts: AiBot.action executes each function call of
\* the response itself, with no ActionChains. Thread 0 is the action()
\* invocation; resp holds the parts of the response still to execute, goal is
\* 1 while the pathfinder holds a goal.
execVars == <<insts, chainVars, inst, base, sit, nth, mq, calls, ackPending, goalL,
              resetL, tickL, young, late, inHazard, hazardOn>>
\* The names a function call of the response can carry; "dance" is none of
\* the declared tools.
DirectNames == {MOVE, EAT, FOLLOW, "dance"}
DirectParts == UNION {[1 .. n -> DirectNames] : n \in 0 .. MaxLen}

InitDirect ==
  /\ insts = <<>>
  /\ actions = <<>>
  /\ currentActionIndex = 0
  /\ pc = [t \in Threads |-> IF t = 0 THEN "timer" ELSE "none"]
  /\ inst = [t \in Threads |-> 0]
  /\ base = [t \in Threads |-> "direct"]
  /\ sit = [t \in Threads |-> "-"]
  /\ nth = 0
  /\ mq = <<>>
  /\ calls = <<>>
  /\ goal = 0
  /\ ackPending = FALSE
  /\ goalL = <<>>
  /\ resetL = <<>>
  /\ tickL = <<>>
  /\ young = {}
  /\ entValid \in BOOLEAN
  /\ inHazard = FALSE
  /\ hazardOn = FALSE
  /\ cycle = 0
  /\ resp = <<>>
  /\ late = {}
  /\ controlLoopActive = FALSE
  /\ batch = [t \in Threads |-> <<>>]
  /\ iv = {}
  /\ arrived = {}
  /\ expired = {}
  /\ finite = [t \in Threads |-> TRUE]
  /\ timers = 1
  /\ acting = 0
  /\ lastAttackTick = 0
  /\ attackL = <<>>
  /\ made = 0
  /\ response = <<>>
  /\ tools = <<>>
  /\ msArg = 0
  /\ waitMs = 0
  /\ ran = {}

\* The cycle timer fires (the first cycle is the call at spawn): sense(),
\* the status line, and generateContent is awaited.
DirectAction ==
  /\ pc[0] = "timer"
  /\ cycle <= MaxCycles
  /\ cycle' = cycle + 1
  /\ pc' = [pc EXCEPT ![0] = "d_planner"]
  /\ timers' = timers - 1
  /\ acting' = acting + 1
  /\ UNCHANGED <<execVars, goal, entValid, resp, ctlVars, finite, directVars, pureVars>>

\* generateContent resolves: the parts carrying a function call with a name.
DirectPlannerReturn ==
  /\ pc[0] = "d_planner"
  /\ \E r \in DirectParts : resp' = r
  /\ pc' = [pc EXCEPT ![0] = "d_for"]
  /\ UNCHANGED <<execVars, goal, entValid, cycle, ctlVars, extVars>>

\* generateContent rejects: action() has no handler and arms no timer.
DirectPlannerFail ==
  /\ pc[0] = "d_planner"
  /\ pc' = [pc EXCEPT ![0] = "dead"]
  /\ acting' = acting - 1
  /\ UNCHANGED <<execVars, goal, entValid, loopVars, ctlVars, finite, timers,
                 directVars, pureVars>>

\* Variant: executeToolCall leaves the listener of the previous
\* follow_and_attack registered.
ExecuteToolCallKeeps(noArgs, hasItem) ==
  /\ pc[0] = "d_for"
  /\ resp # <<>>
  /\ resp' = Tail(resp)
  /\ LET name == Head(resp)
     IN IF noArgs /\ name \in {MOVE, EAT, FOLLOW}
        THEN /\ pc' = [pc EXCEPT ![0] = "dead"]
             /\ acting' = acting - 1
             /\ UNCHANGED <<goal, lastAttackTick, made, attackL>>
        ELSE /\ acting' = acting
             /\ CASE name = MOVE ->
                       /\ goal' = 1
                       /\ UNCHANGED <<pc, lastAttackTick, made, attackL>>
                  [] name = EAT ->
                       /\ goal' = 0
                       /\ pc' = [pc EXCEPT ![0] = IF hasItem THEN "d_equip" ELSE "d_for"]
                       /\ UNCHANGED <<lastAttackTick, made, attackL>>
                  [] name = FOLLOW /\ entValid ->
                       /\ goal' = 1
                       /\ made' = made + 1
                       /\ lastAttackTick' = made + 1
                       /\ attackL' = Append(attackL, made + 1)
                       /\ pc' = pc
                  [] OTHER ->
                       UNCHANGED <<pc, goal, lastAttackTick, made, attackL>>
  /\ UNCHANGED <<execVars, entValid, cycle, ctlVars, finite, timers, pureVars>>

\* One step of the loops of action(): executeToolCall on the next part.  The
\* listener lastAttackTick is removed first; then moveTo sets a goal; eat
\* stops the pathfinder and, with the item in the inventory, awaits
\* bot.equip; followAndAttack, with the entity in bot.entities, sets a goal,
\* makes a new closure and registers it, and without it returns; any other
\* name is logged.  Reading a field of absent args throws.
ExecuteToolCall(noArgs, hasItem) ==
  /\ pc[0] = "d_for"
  /\ resp # <<>>
  /\ resp' = Tail(resp)
  /\ LET name == Head(resp)
         removed == Remove(attackL, lastAttackTick)
     IN IF noArgs /\ name \in {MOVE, EAT, FOLLOW}
        THEN /\ pc' = [pc EXCEPT ![0] = "dead"]
             /\ acting' = acting - 1
             /\ attackL' = removed
             /\ UNCHANGED <<goal, lastAttackTick, made>>
        ELSE /\ acting' = acting
             /\ CASE name = MOVE ->
                       /\ goal' = 1
                       /\ attackL' = removed
                       /\ UNCHANGED <<pc, lastAttackTick, made>>
                  [] name = EAT ->
                       /\ goal' = 0
                       /\ attackL' = removed
                       /\ pc' = [pc EXCEPT ![0] = IF hasItem THEN "d_equip" ELSE "d_for"]
                       /\ UNCHANGED <<lastAttackTick, made>>
                  [] name = FOLLOW /\ entValid ->
                       /\ goal' = 1
                       /\ made' = made + 1
                       /\ lastAttackTick' = made + 1
                       /\ attackL' = Append(removed, made + 1)
                       /\ pc' = pc
                  [] OTHER ->
                       /\ attackL' = removed
                       /\ UNCHANGED <<pc, goal, lastAttackTick, made>>
  /\ UNCHANGED <<execVars, entValid, cycle, ctlVars, finite, timers, pureVars>>

\* The loops of action() are over: setTimeout(action, 10 s).
DirectSetTimer ==
  /\ pc[0] = "d_for"
  /\ resp = <<>>
  /\ pc' = [pc EXCEPT ![0] = "timer"]
  /\ timers' = timers + 1
  /\ acting' = acting - 1
  /\ UNCHANGED <<execVars, goal, entValid, loopVars, ctlVars, finite, directVars,
                 pureVars>>

\* eat: bot.equip settles; on success bot.consume is awaited, on failure
\* the rejection leaves action() through executeToolCall.
DirectEquipDone(ok) ==
  /\ pc[0] = "d_equip"
  /\ pc' = [pc EXCEPT ![0] = IF ok THEN "d_consume" ELSE "dead"]
  /\ acting' = IF ok THEN acting ELSE acting - 1
  /\ UNCHANGED <<execVars, goal, entValid, loopVars, ctlVars, finite, timers,
                 directVars, pureVars>>

\* eat: bot.consume settles.
DirectConsumeDone(ok) ==
  /\ pc[0] = "d_consume"
  /\ pc' = [pc EXCEPT ![0] = IF ok THEN "d_for" ELSE "dead"]
  /\ acting' = IF ok THEN acting ELSE acting - 1
  /\ UNCHANGED <<execVars, goal, entValid, loopVars, ctlVars, finite, timers,
                 directVars, pureVars>>

\* The followed entity dies or leaves: entity.isValid turns false.
DirectEntityGone ==
  /\ pc[0] # "d_for"
  /\ entValid
  /\ entValid' = FALSE
  /\ UNCHANGED <<execVars, pc, goal, loopVars, ctlVars, extVars>>

\* A physics tick while action() is suspended or ended, the entity no longer
\* valid: each registered closure stops the pathfinder and removes
\* this.lastAttackTick.  (With the entity valid a closure only attacks.)
DirectTick ==
  /\ pc[0] # "d_for"
  /\ attackL # <<>>
  /\ ~entValid
  /\ goal' = 0
  /\ attackL' = Remove(attackL, lastAttackTick)
  /\ UNCHANGED <<execVars, pc, entValid, loopVars, ctlVars, finite, timerVars,
                 lastAttackTick, made, pureVars>>

NextDirect ==
  \/ DirectAction
  \/ DirectPlannerReturn
  \/ DirectPlannerFail
  \/ \E noArgs \in BOOLEAN, hasItem \in BOOLEAN : ExecuteToolCall(noArgs, hasItem)
  \/ DirectSetTimer
  \/ \E ok \in BOOLEAN : DirectEquipDone(ok)
  \/ \E ok \in BOOLEAN : DirectConsumeDone(ok)
  \/ DirectEntityGone
  \/ DirectTick

SpecDirect == InitDirect /\ [][NextDirect]_vars


\* ------------------------------------ VertexPlanner.decide and the wait tool
\* A part of a candidate: a text, or a functionCall with its name ("" for
\* none) and its args: absent, an object, or a string holding the JSON text
\* of that object.
TextPart == [call |-> FALSE, name |-> "", form |-> "absent", val |-> <<>>]
CallParts ==
  {[call |-> TRUE, name |-> n, form |-> f,
    val |-> IF f = "absent" THEN <<>> ELSE <<<<"x", 1>>>>] :
     n \in {"goto", "say", ""}, f \in {"absent", "object", "string"}}
Parts == {TextPart} \cup CallParts
Candidates == UNION {[1 .. n -> Parts] : n \in 0 .. MaxParts}
Responses == UNION {[1 .. n -> Candidates] : n \in 0 .. MaxCands}
\* call.args?.ms: absent, or an integer.
MsArgs == {[given |-> FALSE, v |-> 0]} \cup {[given |-> TRUE, v |-> n] : n \in -MaxMs .. MaxMs}

\* safeJson(part.functionCall.args ?? {}): absent args become the empty
\* object, a string is parsed, an object is returned as it is.
safeJson(part) ==
  CASE part.form = "absent" -> <<>>
    [] part.form = "string" -> part.val
    [] OTHER -> part.val

\* The inner loop of decide: each part with a named functionCall is pushed.
RECURSIVE PushParts(_, _)
PushParts(parts, acc) ==
  IF parts = <<>> THEN acc
  ELSE LET part == Head(parts)
       IN PushParts(Tail(parts),
                    IF part.call /\ part.name # ""
                    THEN Append(acc, [name |-> part.name, args |-> safeJson(part)])
                    ELSE acc)

\* The outer loop of decide, over the candidates.
RECURSIVE PushCandidates(_, _)
PushCandidates(cands, acc) ==
  IF cands = <<>> THEN acc
  ELSE PushCandidates(Tail(cands), PushParts(Head(cands), acc))

\* Variant: decide returns what the loops collected, without the fallback.
DecideNoFallback(out) == PushCandidates(out, <<>>)

\* What decide returns for the response out.
Decide(out) ==
  LET collected == PushCandidates(out, <<>>)
  IN IF Len(collected) = 0
     THEN <<[name |-> "wait", args |-> <<<<"ms", 1500>>>>]>>
     ELSE collected

Max(a, b) == IF a >= b THEN a ELSE b
Min(a, b) == IF a <= b THEN a ELSE b

\* Variant: the wait tool without the lower clamp.
WaitMsNoFloor(a) == Min(IF a.given THEN a.v ELSE 1000, 5000)

\* executeTool, case "wait": Math.min(Math.max(Number(ms ?? 1000), 250), 5000).
WaitMs(a) == Min(Max(IF a.given THEN a.v ELSE 1000, 250), 5000)

InitFn ==
  /\ insts = <<>>
  /\ actions = <<>>
  /\ currentActionIndex = 0
  /\ pc = [t \in Threads |-> "none"]
  /\ inst = [t \in Threads |-> 0]
  /\ base = [t \in Threads |-> "fn"]
  /\ sit = [t \in Threads |-> "-"]
  /\ nth = 0
  /\ mq = <<>>
  /\ calls = <<>>
  /\ goal = 0
  /\ ackPending = FALSE
  /\ goalL = <<>>
  /\ resetL = <<>>
  /\ tickL = <<>>
  /\ young = {}
  /\ entValid = TRUE
  /\ inHazard = FALSE
  /\ hazardOn = FALSE
  /\ cycle = 0
  /\ resp = <<>>
  /\ late = {}
  /\ controlLoopActive = FALSE
  /\ batch = [t \in Threads |-> <<>>]
  /\ iv = {}
  /\ arrived = {}
  /\ expired = {}
  /\ finite = [t \in Threads |-> TRUE]
  /\ timers = 0
  /\ acting = 0
  /\ lastAttackTick = 0
  /\ attackL = <<>>
  /\ made = 0
  /\ \/ response \in Responses /\ msArg = [given |-> FALSE, v |-> 0]
     \/ response = <<>> /\ msArg \in MsArgs
  /\ tools = <<>>
  /\ waitMs = 0
  /\ ran = {}

\* decide is called on the response.
DecideCall ==
  /\ "decide" \notin ran
  /\ tools' = Decide(response)
  /\ ran' = ran \cup {"decide"}
  /\ UNCHANGED <<execVars, pc, goal, entValid, loopVars, ctlVars, finite, timerVars,
                 directVars, response, msArg, waitMs>>

\* executeTool is called on a wait call with the ms argument.
ExecuteWait ==
  /\ "wait" \notin ran
  /\ waitMs' = WaitMs(msArg)
  /\ ran' = ran \cup {"wait"}
  /\ UNCHANGED <<execVars, pc, goal, entValid, loopVars, ctlVars, finite, timerVars,
                 directVars, response, msArg, tools>>

NextFn == DecideCall \/ ExecuteWait

SpecFn == InitFn /\ [][NextFn]_vars


\* ------------------------------------------------ properties of the executor
\* The threads of start() invocations.
StartThreads == {t \in Threads : base[t] = "start" /\ pc[t] # "none"}
\* The actions whose act() has been invoked and has not settled.
RunningActions == {inst[u] : u \in {v \in Threads : pc[v] \in ActPcs \ {"a_call"}}}
\* Where a start() invocation stands once an act() it awaited has failed.
FailedPcs == {"s_catch", "r_call", "c_call", "c_wait", "c_woke", "r_cont", "s_break",
              "aborted"}
\* The action start() of thread t awaited is the one at the cursor.
AtCursor(t) ==
  /\ currentActionIndex < Len(actions)
  /\ actions[currentActionIndex + 1] = inst[t]
\* The descriptions of the actions of the list from position j on.
DescribeFrom(j) == [n \in 1 .. (Len(actions) - j + 1) |-> Describe(actions[j - 1 + n])]

\* C1: under AiBot.act, at most one Action is running at any instant (its
\* act() has been invoked and has not settled).
AtMostOneRunning == Cardinality(RunningActions) <= 1

ResetIdempotent ==
  [][\A t \in Threads :
       (pc[t] = "r_call" /\ pc'[t] # "r_call" /\ currentActionIndex >= Len(actions))
         => /\ pc'[t] = AfterReset(t)
            /\ actions' = <<>>
            /\ currentActionIndex' = 0
            /\ ToJSON' = <<>>
            /\ goal' = goal]_vars

\* C4 witness: the loop's reset() of the second cycle has returned without a
\* cancel(), right after the reset() of the start() that aborted.
ResetTwiceInARow ==
  /\ cycle = 2
  /\ pc[0] = "l_add"
  /\ inst[0] = 0
  /\ pc[1] = "aborted"

\* C5: while a start() invocation is executing, add() is rejected: the list
\* does not grow.
AddRejectedWhileRunActive ==
  [][(\E t \in StartThreads : pc[t] \notin {"done", "aborted"})
       => Len(actions') <= Len(actions)]_vars

NoDirectiveAfterCancel == late = {}

EatCancelIsNoOp ==
  [][\A t \in Threads :
       (/\ pc[t] = "c_call"
        /\ pc'[t] # "c_call"
        /\ insts[inst[t]].kind = EAT
        /\ InFlight(inst[t]))
         => /\ pc'[t] = AfterCancel(t)
            /\ \A u \in Threads \ {t} : pc'[u] = pc[u]
            /\ mq' = Resume(t)
            /\ \A i \in 1 .. Len(insts) :
                 /\ insts'[i].kind = insts[i].kind
                 /\ insts'[i].arg = insts[i].arg
                 /\ insts'[i].attackTick = insts[i].attackTick
            /\ UNCHANGED <<chainVars, calls, goal, ackPending, goalL, resetL, tickL,
                           young, worldVars, late>>]_vars

\* C9 witness: a cancel() made while the eat was in flight has returned and
\* the eat's act() has resolved.
EatCompletedDespiteCancel ==
  \E t, u \in Threads :
    /\ pc[t] = "c_done"
    /\ sit[t] = "during"
    /\ insts[inst[t]].kind = EAT
    /\ inst[u] = inst[t]
    /\ pc[u] = "ret_ok"

HazardIdempotentNonBlocking ==
  [][HazardTick =>
       /\ inHazard => goal' = 0
       /\ goal = 0 => UNCHANGED <<insts, chainVars, pc, inst, base, sit, nth, mq, goal,
                                  ackPending, goalL, resetL, tickL, young, worldVars,
                                  loopVars, late>>
       /\ nth' = nth
       /\ Len(resetL') <= Len(resetL)
       /\ UNCHANGED <<goalL, tickL>>
       /\ \A t \in Threads : pc'[t] # pc[t] => (pc[t] = "c_wait" /\ pc'[t] = "c_woke")]_vars

\* C11 witness: the handler fires, with the hazard persisting, on a goal
\* that an earlier firing cleared (the path_reset it asked for is still due).
HazardFiresAgain ==
  /\ calls # <<>>
  /\ Head(calls) = HazardCall
  /\ inHazard
  /\ goal = 0
  /\ ackPending
  /\ entValid
  /\ \A t \in Threads : pc[t] \notin CancelPcs \cup {"c_done"}
  /\ \E t \in Threads : pc[t] = "a_goal"

Malformed(d) == d.name \in {MOVE, EAT, FOLLOW} /\ d.args = "absent"
\* A decision of a kind addAction has no case for.
Unknown(d) == d.name \notin {MOVE, EAT, FOLLOW}
\* The decisions of a batch that are not of unknown kind, in order.
KnownOf(r) == SelectSeq(r, LAMBDA d : ~Unknown(d))

\* C13: the step that ends a planner call never stops the loop: whether the
\* call succeeded or failed, AiBot.act goes on with the cycle.
PlannerFailureKeepsLoop ==
  [][(pc[0] = "planner" /\ pc'[0] # "planner") => pc'[0] # "dead"]_vars

\* C14: a step in which a start() invocation meets or handles the failure of
\* an action leaves AiBot.act where it stands (or wakes its pending reset),
\* and AiBot.act stops only at its planner call or at translation, never
\* because a Run failed.
RunFailureKeepsLoop ==
  [][/\ (\E t \in Threads : base[t] = "start" /\ pc'[t] # pc[t] /\ pc'[t] \in FailedPcs)
          => (pc'[0] = pc[0] \/ (pc[0] = "c_wait" /\ pc'[0] = "c_woke"))
     /\ (pc'[0] = "dead" /\ pc[0] # "dead") => pc[0] \in {"planner", "l_add"}]_vars

\* C14 witness: the Run of the first cycle was aborted and AiBot.act is in
\* the planner call of its second cycle.
NextCycleAfterFailedRun ==
  /\ cycle = 2
  /\ pc[0] = "planner"
  /\ pc[1] = "aborted"

\* C15: translation of a batch always ends with start() called and the
\* cycle going on, whatever decisions the batch holds.
MalformedDecisionDropped ==
  [][(pc[0] = "l_add" /\ pc'[0] # "l_add") => pc'[0] = "l_settimer"]_vars

\* C16: when translation of a batch completes, the list has grown by exactly
\* the decisions of known kind, translated in their order; and translation
\* fails only on a batch with a malformed decision, never on an unknown one.
UnknownDecisionsDropped ==
  [][/\ (pc[0] = "l_add" /\ pc'[0] = "l_settimer")
          => /\ Len(actions') = Len(actions) + Len(KnownOf(resp))
             /\ \A j \in 1 .. Len(KnownOf(resp)) :
                  /\ insts'[actions'[Len(actions) + j]].kind = KnownOf(resp)[j].name
                  /\ insts'[actions'[Len(actions) + j]].arg = KnownOf(resp)[j].args
                  /\ insts'[actions'[Len(actions) + j]].life = "new"
     /\ (pc[0] = "l_add" /\ pc'[0] = "dead")
          => \E j \in 1 .. Len(resp) : Malformed(resp[j])]_vars

\* C16 witness: a batch of a decision of unknown kind and a known one has
\* been translated into a list of one action.
UnknownDroppedFromBatch ==
  /\ pc[0] = "l_settimer"
  /\ Len(resp) = 2
  /\ \E j \in 1 .. 2 : Unknown(resp[j])
  /\ Len(actions) = 1

\* ------------------------------------------ properties of the translation
\* C17: the description of every Action object, given to addAction as a
\* decision (name = its action, args = its args), adds exactly one Action,
\* and that Action has the same description.
DescribeRoundTrips ==
  \A i \in 1 .. Len(insts) :
    LET back == AddAction(<<[name |-> Describe(i).action, args |-> Describe(i).args]>>)
    IN /\ Len(back) = 1
       /\ [action |-> back[1].kind, args |-> back[1].arg] = Describe(i)

\* ------------------------------------------------ properties of whole Runs
\* C18: when the latest start() invocation returns from its loop over a
\* non-empty list and no start() invocation has met a failure, no action is
\* in flight, the cursor equals the length of the list and toJSON() is empty.
SuccessfulRunEndsIdle ==
  [][(/\ nth > 0
      /\ pc[nth] = "s_loop"
      /\ pc'[nth] = "done"
      /\ actions # <<>>
      /\ \A u \in StartThreads : pc[u] \notin FailedPcs)
        => /\ currentActionIndex = Len(actions)
           /\ \A i \in 1 .. Len(insts) : ~InFlight(i)
           /\ ToJSON = <<>>]_vars

\* C19: in a Run, follow_and_attack invoked with its entity absent fails and
\* takes start() to its catch clause; start() invokes act() only on an
\* action whose act() was never invoked before (no action of the Run is run
\* again); and when the reset() of the abort completes, toJSON() is empty.
AbortWithoutRetry ==
  [][\A t \in Threads :
       base[t] = "start" =>
         /\ (/\ pc[t] = "a_call"
             /\ pc'[t] # "a_call"
             /\ insts[inst[t]].kind = FOLLOW
             /\ ~entValid) => pc'[t] = "s_catch"
         /\ (pc'[t] = "a_call" /\ pc[t] # "a_call") => insts[inst'[t]].life = "new"
         /\ (pc[t] = "r_cont" /\ pc'[t] = "s_break") => ToJSON' = <<>>]_vars

\* C19 witness: the Run [move_to_position, follow_and_attack] of the first
\* cycle was aborted at the follow_and_attack, the move having been invoked.
MoveThenAbsentEntityAborted ==
  /\ cycle = 1
  /\ pc[1] = "aborted"
  /\ Len(insts) = 2
  /\ insts[1].kind = MOVE
  /\ insts[1].life = "acted"
  /\ insts[2].kind = FOLLOW
  /\ inst[1] = 2
  /\ ~entValid
  /\ actions = <<>>

\* ------------------------------------- properties of FollowAndAttackAction
\* C20: act() of a follow_and_attack invoked with its entity absent fails in
\* the very step of the call: it sets no goal, registers no listener of
\* ticks, goal_reached or path_reset, and issues no directive.
AbsentEntityFailsAtOnce ==
  [][\A t \in Threads :
       (/\ pc[t] = "a_call"
        /\ pc'[t] # "a_call"
        /\ insts[inst[t]].kind = FOLLOW
        /\ ~entValid)
         => /\ pc'[t] = AfterActFail(t)
            /\ insts'[inst[t]].attackTick = 0
            /\ UNCHANGED <<goal, goalL, tickL, resetL, young, late>>]_vars

\* C20 witness: a client's act() of a follow_and_attack has failed with the
\* entity absent, no listener ever registered and no goal set.
FollowFailedOnAbsentEntity ==
  \E t \in Threads :
    /\ base[t] = "api"
    /\ pc[t] = "ret_fail"
    /\ insts[inst[t]].kind = FOLLOW
    /\ insts[inst[t]].attackTick = 0
    /\ ~entValid
    /\ goal = 0
    /\ tickL = <<>>

\* --------------------------------- properties of the chat-controlled loop
\* The loop() coroutines that have been called and have not returned.
ActiveLoops == {t \in Threads : base[t] = "ctl" /\ pc[t] \notin {"none", "p_exit"}}

\* C21: a loop() returns only with the flag down, at its while test, with no
\* tool call of its batch left or in progress; and when no loop() is left,
\* no goto is in progress: its interval is cleared and the goal is null.
StopLetsBatchFinish ==
  [][/\ \A t \in Threads :
          (base[t] = "ctl" /\ pc'[t] = "p_exit" /\ pc[t] # "p_exit")
            => /\ pc[t] = "p_while"
               /\ ~controlLoopActive
               /\ batch[t] = <<>>
               /\ t \notin iv
     /\ (\A t \in Threads : pc'[t] \in {"none", "p_exit"}) => (iv' = {} /\ goal' = 0)]_vars

\* C21 witness: "stop" has arrived during a goto that is not the last tool
\* call of its batch; the loop() goes on.
StopDuringBatch ==
  \E t \in Threads :
    /\ ~controlLoopActive
    /\ pc[t] = "p_goto"
    /\ batch[t] # <<>>
    /\ goal = t

\* C22: at most one loop() coroutine is active.
AtMostOneLoop == Cardinality(ActiveLoops) <= 1

\* C23: once a goto of a batch has ended by its timeout, the loop() starts
\* no further tool call of that batch.
TimeoutAbortsBatch ==
  [][\A t \in Threads :
       (base[t] = "ctl" /\ pc[t] = "p_for" /\ batch'[t] # batch[t]) => t \notin expired]_vars

\* ------------------------------------------------- properties of the cursor
\* The actions of the list whose act() has not been invoked, in order.
NotStarted == SelectSeq(actions, LAMBDA i : insts[i].life = "new")

CursorAdvancesOnOwnSuccess ==
  [][\A t \in Threads :
       base[t] = "start" =>
         /\ (pc[t] = "s_next" /\ currentActionIndex' = currentActionIndex + 1) => AtCursor(t)
         /\ (pc[t] = "s_loop" /\ pc'[t] = "a_call") => t = nth]_vars

\* ------------------------------------------- properties of superseded Runs
\* The start() invocations whose Run has been reset by a later cycle: a
\* later start() has been called since.
Superseded == {t \in StartThreads : t < nth}

\* C26: a superseded start() invokes act() on no action: whenever it stands
\* in an act(), that act() was invoked before the Run was reset (its action
\* is not in the current list).
SupersededStartStops ==
  \A t \in Superseded :
    pc[t] \in ActPcs => inst[t] \notin SeqToSet(actions)

\* C27: an act() that has been cancelled eventually settles: the start()
\* suspended on it is eventually no longer within that act().
CancelledActSettles ==
  \A t \in 1 .. MaxThreads :
    (pc[t] \in ActPcs /\ insts[inst[t]].life = "cancelled") ~> (pc[t] \notin ActPcs)

\* ------------------------------------------- properties of the cycle order
\* C28: AiBot.act arms the timer of the next cycle only when the start() it
\* called in this cycle has returned.
TimerAfterRunEnded ==
  [][(pc[0] = "l_settimer" /\ pc'[0] = "timer") => pc[nth] \in {"done", "aborted"}]_vars

\* C29: in a cycle the list grows only in the translation step, which
\* AiBot.act reaches from the return of its reset(), over an empty list with
\* the cursor at 0; reset() is called from the planner's answer; and start()
\* is called with every decision of known kind of the proposal in the list.
ResetSubmitRun ==
  [][/\ Len(actions') > Len(actions)
          => (pc[0] = "l_add" /\ actions = <<>> /\ currentActionIndex = 0)
     /\ (pc'[0] = "l_add" /\ pc[0] # "l_add") => pc[0] \in {"r_call", "r_cont"}
     /\ (pc'[0] = "r_call" /\ pc[0] # "r_call") => pc[0] = "planner"
     /\ \A k \in Threads :
          (base'[k] = "start" /\ pc[k] = "none" /\ pc'[k] # "none")
            => /\ pc[0] = "l_add"
               /\ Len(actions') = Len(KnownOf(resp))
               /\ \A j \in 1 .. Len(actions') :
                    insts'[actions'[j]].kind = KnownOf(resp)[j].name]_vars

\* C29 witness: the second cycle has reset the Run of the first, still
\* suspended in an action, has added two actions and has called start().
SecondCycleSubmitted ==
  /\ cycle = 2
  /\ pc[0] = "l_settimer"
  /\ nth = 2
  /\ pc[1] \in ActPcs
  /\ Len(actions) = 2

\* C30: when a start() returns from its failure path, the pathfinder holds
\* no goal of an action that has failed: a goal still set is that of an
\* action whose act() is in flight.
FailedGoalCleared ==
  [][\A t \in Threads :
       (base[t] = "start" /\ pc[t] = "s_break" /\ pc'[t] = "aborted")
         => (goal' = 0 \/ InFlight(goal)')]_vars

\* ------------------------------------------ properties of concurrent resets
\* C31: when the reset() of a failure path of start() resumes after
\* `await cancel()`, a later start() having been called, and clears the list, the list it clears is the one it was
\* called on: it is empty already or
\* still holds the action the reset() cancelled.
ResetClearsOwnRun ==
  [][\A t \in Threads :
       (/\ base[t] = "start"
        /\ t < nth
        /\ pc[t] = "r_cont"
        /\ pc'[t] = "s_break"
        /\ actions # <<>>)
         => inst[t] \in SeqToSet(actions)]_vars

\* C32: a cancel() that waits for path_reset has one coming: the pathfinder
\* still owes the path_reset of a stop directive, or a goal is set whose path
\* can be recomputed.  (A path_reset emitted inside setGoal(null), before
\* cancel() registers its listener, would leave the wait without one.)
WaitingCancelIsOwedAck ==
  \A t \in Threads : pc[t] = "c_wait" => (ackPending \/ goal # 0)

\* C33: the cursor stays within the list: 0 <= currentActionIndex <=
\* actions.length in every reachable state.
CursorWithinList ==
  pc[0] # "dead" => (currentActionIndex >= 0 /\ currentActionIndex <= Len(actions))

\* C34: the control loop AiBot.act() never multiplies: at every moment the
\* invocations of act() in progress and the pending cycle timers number at
\* most one together.
OneActOrTimer ==
  /\ timers \in {0, 1}
  /\ acting \in {0, 1}
  /\ timers + acting <= 1
\* The second cycle's act() is in progress, its timer consumed.
SecondActInProgress ==
  /\ cycle = 2
  /\ pc[0] = "l_settimer"
  /\ acting = 1
  /\ timers = 0

\* C35: when reset() returns, no attackTick listener of an action of the
\* list it cleared is registered on physicsTick.
ResetLeavesNoAttackTick ==
  [][\A t \in Threads :
       (/\ pc[t] \in {"r_call", "r_cont"}
        /\ pc'[t] \notin {"r_call", "r_cont", "c_call"}
        /\ pc[0] # "dead")
         => \A j \in 1 .. Len(tickL') : tickL'[j].inst \notin SeqToSet(actions)]_vars

\* --------------------------------- properties of the direct-execution variant
\* C36: in src/bot.ts at most one attack tick listener is registered on the
\* bot after any sequence of tool calls, it is the one AiBot.lastAttackTick
\* names, and no step taken while the entity is missing installs a listener.
AtMostOneAttackTick ==
  [][/\ Len(attackL') <= 1
     /\ attackL' # <<>> => attackL' = <<lastAttackTick'>>
     /\ ~entValid => SeqToSet(attackL') \subseteq SeqToSet(attackL)]_vars
\* A second follow_and_attack has replaced the listener of the first.
SecondFollowReplacedFirst ==
  /\ made = 2
  /\ attackL = <<2>>
  /\ lastAttackTick = 2

\* ------------------------------------- properties of the polling move
\* C37: goto always terminates: a coroutine waiting in goto eventually
\* leaves it, with its poll timer cleared.
GotoTerminates ==
  \A t \in 1 .. MaxLoops : (pc[t] = "p_goto") ~> (pc[t] # "p_goto" /\ t \notin iv)

\* ------------------------------- properties of decide and of the wait tool
\* The parts of all candidates of the response, in response order.
RECURSIVE Flat(_)
Flat(cands) == IF cands = <<>> THEN <<>> ELSE Head(cands) \o Flat(Tail(cands))
\* The function calls of the response: the parts whose functionCall carries
\* a name.
FunctionCalls == SelectSeq(Flat(response), LAMBDA part : part.call /\ part.name # "")

\* C38: decide never returns an empty list: for a response with no function
\* call it returns exactly one decision, a wait of 1500 ms; otherwise it
\* returns the function calls, one decision each, in response order.
DecideNeverEmpty ==
  "decide" \in ran =>
    /\ tools # <<>>
    /\ IF FunctionCalls = <<>>
       THEN tools = <<[name |-> "wait", args |-> <<<<"ms", 1500>>>>]>>
       ELSE /\ Len(tools) = Len(FunctionCalls)
            /\ \A j \in 1 .. Len(tools) :
                 /\ tools[j].name = FunctionCalls[j].name
                 /\ tools[j].args = FunctionCalls[j].val
\* decide has answered a response holding only a text with the fallback wait.
TextOnlyGivesWait ==
  /\ "decide" \in ran
  /\ response = <<<<TextPart>>>>
  /\ tools = <<[name |-> "wait", args |-> <<<<"ms", 1500>>>>]>>

\* C39: the duration of a wait is within [250, 5000] ms for every integer ms
\* argument, 250 for values below 250, 5000 for values above 5000, and 1000
\* when the argument is absent.
WaitWithinRange ==
  "wait" \in ran =>
    /\ waitMs >= 250
    /\ waitMs <= 5000
    /\ (msArg.given /\ msArg.v < 250) => waitMs = 250
    /\ (msArg.given /\ msArg.v > 5000) => waitMs = 5000
    /\ ~msArg.given => waitMs = 1000
\* A wait of 5001 ms has been cut to 5000.
LongWaitCut ==
  /\ "wait" \in ran
  /\ msArg.given
  /\ msArg.v = 5001
  /\ waitMs = 5000


====
